---------------------------- MODULE Spec2Model ----------------------------
(***************************************************************************)
(* A model of the sentiment aggregation engine of                          *)
(* src/SentimentDetectorFinal.py: clause segmentation, aspect tagging,     *)
(* valence normalisation, aggregation, NLI-based sarcasm detection with    *)
(* its lexical guardrail, and the result adjustment of Analyzer.analyze.   *)
(*                                                                         *)
(* Text is a sequence of one-character strings, so that the regular        *)
(* expressions and the substring tests of the code are modelled by what    *)
(* they do on characters.  Python floats are idealised as exact rationals  *)
(* <<numerator, denominator>> in lowest terms.                             *)
(***************************************************************************)
EXTENDS Integers, Sequences, FiniteSets, TLC

(***************************************************************************)
(* Characters: str.lower, str.upper, str.strip and the regex classes \w,   *)
(* \W and \b on the ASCII subset.                                          *)
(***************************************************************************)
LowerAlpha ==
  <<"a","b","c","d","e","f","g","h","i","j","k","l","m",
    "n","o","p","q","r","s","t","u","v","w","x","y","z">>

UpperAlpha ==
  <<"A","B","C","D","E","F","G","H","I","J","K","L","M",
    "N","O","P","Q","R","S","T","U","V","W","X","Y","Z">>

Digits == {"0","1","2","3","4","5","6","7","8","9"}

Range(s) == {s[i] : i \in 1..Len(s)}

\* The characters the regex class \w matches.
WordChars == Range(LowerAlpha) \cup Range(UpperAlpha) \cup Digits \cup {"_"}

IsWord(c) == c \in WordChars

\* The characters str.strip() removes.
IsSpace(c) == c \in {" ", "\t", "\n", "\r"}

\* The lower-case letter of every upper-case letter, and the converse.
LowerOf ==
  [c \in Range(UpperAlpha) |->
     LowerAlpha[CHOOSE i \in 1..Len(UpperAlpha) : UpperAlpha[i] = c]]

UpperOf ==
  [c \in Range(LowerAlpha) |->
     UpperAlpha[CHOOSE i \in 1..Len(LowerAlpha) : LowerAlpha[i] = c]]

LowerChar(c) == IF c \in DOMAIN LowerOf THEN LowerOf[c] ELSE c

UpperChar(c) == IF c \in DOMAIN UpperOf THEN UpperOf[c] ELSE c

RECURSIVE lower(_)
lower(s) == IF s = <<>> THEN <<>> ELSE <<LowerChar(Head(s))>> \o lower(Tail(s))

RECURSIVE upper(_)
upper(s) == IF s = <<>> THEN <<>> ELSE <<UpperChar(Head(s))>> \o upper(Tail(s))

RECURSIVE LStrip(_)
LStrip(s) == IF s # <<>> /\ IsSpace(Head(s)) THEN LStrip(Tail(s)) ELSE s

RECURSIVE RStrip(_)
RStrip(s) ==
  IF s # <<>> /\ IsSpace(s[Len(s)]) THEN RStrip(SubSeq(s, 1, Len(s) - 1)) ELSE s

\* A plausible slip: the input is not trimmed at all.
strip_none(s) == s

\* str.strip()
strip(s) == RStrip(LStrip(s))

\* k occurs in s at position i
OccursAt(k, s, i) ==
  /\ i >= 1
  /\ i + Len(k) - 1 <= Len(s)
  /\ SubSeq(s, i, i + Len(k) - 1) = k

\* Python's substring test `k in s`
In(k, s) == \E i \in 1..(Len(s) + 1) : OccursAt(k, s, i)

\* str.startswith
StartsWith(s, k) == OccursAt(k, s, 1)

(***************************************************************************)
(* Config                                                                  *)
(***************************************************************************)
ASPECT_KEYWORDS ==
  [camera |-> {<<"c","a","m","e","r","a">>, <<"p","h","o","t","o">>,
               <<"i","m","a","g","e">>, <<"p","i","c","t","u","r","e">>},
   battery |-> {<<"b","a","t","t","e","r","y">>, <<"c","h","a","r","g","e">>,
                <<"p","o","w","e","r">>, <<"l","i","f","e">>},
   performance |-> {<<"p","e","r","f","o","r","m","a","n","c","e">>,
                    <<"s","p","e","e","d">>, <<"l","a","g">>,
                    <<"s","l","o","w">>, <<"f","a","s","t">>},
   display |-> {<<"d","i","s","p","l","a","y">>, <<"s","c","r","e","e","n">>,
                <<"b","r","i","g","h","t","n","e","s","s">>,
                <<"r","e","s","o","l","u","t","i","o","n">>},
   software |-> {<<"s","o","f","t","w","a","r","e">>, <<"u","p","d","a","t","e">>,
                 <<"a","p","p">>, <<"u","i">>, <<"o","s">>}]

POS_WORDS ==
  {<<"g","r","e","a","t">>, <<"a","m","a","z","i","n","g">>,
   <<"a","w","e","s","o","m","e">>, <<"f","a","n","t","a","s","t","i","c">>,
   <<"l","o","v","e">>, <<"p","e","r","f","e","c","t">>,
   <<"w","o","n","d","e","r","f","u","l">>, <<"e","x","c","e","l","l","e","n","t">>}

NEG_ACTIONS ==
  {<<"b","r","e","a","k","s">>, <<"c","r","a","s","h","e","s">>,
   <<"r","u","i","n","s">>, <<"f","a","i","l","s">>, <<"b","u","g","s">>,
   <<"f","r","e","e","z","e","s">>, <<"l","a","g","s">>,
   <<"d","r","a","i","n","s">>, <<"o","v","e","r","h","e","a","t","s">>}

(***************************************************************************)
(* split_clauses: re.split on the alternation                              *)
(*   [.;] | , | \bbut\b | \bhowever\b | \byet\b | \balthough\b |           *)
(*   \bnevertheless\b | \bnonetheless\b        (flags=re.I)                *)
(***************************************************************************)
\* The characters the pattern splits at.
SplitPunct == {".", ";", ","}

\* The words the pattern splits at, in the order of the alternation.
SplitWords ==
  <<<<"b","u","t">>,
    <<"h","o","w","e","v","e","r">>,
    <<"y","e","t">>,
    <<"a","l","t","h","o","u","g","h">>,
    <<"n","e","v","e","r","t","h","e","l","e","s","s">>,
    <<"n","o","n","e","t","h","e","l","e","s","s">>>>

\* \b at the gap before position i of text (i in 1..Len+1)
Boundary(text, i) ==
  LET before == i > 1 /\ IsWord(text[i - 1])
      after  == i <= Len(text) /\ IsWord(text[i])
  IN  before # after

\* \bw\b matches at position i, ignoring case
WordMatchAt(text, i, w) ==
  /\ i + Len(w) - 1 <= Len(text)
  /\ Boundary(text, i)
  /\ Boundary(text, i + Len(w))
  /\ lower(SubSeq(text, i, i + Len(w) - 1)) = w

\* Length of the pattern's match starting at position i, 0 when there is none.
DelimLenAt(text, i) ==
  IF text[i] \in SplitPunct THEN 1
  ELSE IF \E k \in 1..Len(SplitWords) : WordMatchAt(text, i, SplitWords[k])
       THEN Len(SplitWords[CHOOSE k \in 1..Len(SplitWords) :
                              WordMatchAt(text, i, SplitWords[k])])
       ELSE 0

\* re.split: the pieces of text between the matches, scanning from i with the
\* current piece starting at start.
RECURSIVE ReSplit(_, _, _)
ReSplit(text, start, i) ==
  IF i > Len(text) THEN <<SubSeq(text, start, Len(text))>>
  ELSE LET n == DelimLenAt(text, i)
       IN  IF n > 0
           THEN <<SubSeq(text, start, i - 1)>> \o ReSplit(text, i + n, i + n)
           ELSE ReSplit(text, start, i + 1)

\* [p.strip() for p in parts if p and p.strip()]
RECURSIVE StripKept(_)
StripKept(parts) ==
  IF parts = <<>> THEN <<>>
  ELSE LET p == Head(parts)
       IN  IF p # <<>> /\ strip(p) # <<>>
           THEN <<strip(p)>> \o StripKept(Tail(parts))
           ELSE StripKept(Tail(parts))

split_clauses(text) == StripKept(ReSplit(text, 1, 1))

(***************************************************************************)
(* detect_aspects: the buckets with a keyword occurring in the lowercased  *)
(* span, or general.  The code returns list(found); the order of a set is  *)
(* not modelled, the value is the set.                                     *)
(***************************************************************************)
FoundAspects(span) ==
  LET lowered == lower(span)
  IN  {asp \in DOMAIN ASPECT_KEYWORDS :
         \E k \in ASPECT_KEYWORDS[asp] : In(k, lowered)}

\* A plausible slip: the span is matched without lowercasing it.
detect_aspects_cased(span) ==
  LET found == {asp \in DOMAIN ASPECT_KEYWORDS :
                  \E k \in ASPECT_KEYWORDS[asp] : In(k, span)}
  IN  IF found # {} THEN found ELSE {"general"}

detect_aspects(span) ==
  LET found == FoundAspects(span)
  IN  IF found # {} THEN found ELSE {"general"}

(***************************************************************************)
(* normalize_label                                                         *)
(***************************************************************************)
normalize_label(sent_label) ==
  LET s == lower(sent_label)
  IN  IF \/ In(<<"p","o","s">>, s)
         \/ In(<<"p","o","s","i","t","i","v","e">>, s)
         \/ s \in {<<"5"," ","s","t","a","r","s">>, <<"4"," ","s","t","a","r","s">>}
      THEN "Positive"
      ELSE IF \/ In(<<"n","e","g">>, s)
              \/ In(<<"n","e","g","a","t","i","v","e">>, s)
              \/ s \in {<<"1"," ","s","t","a","r">>, <<"2"," ","s","t","a","r","s">>}
           THEN "Negative"
           ELSE "Neutral"

(***************************************************************************)
(* The guardrail's regular expression (analyze, line 229):                 *)
(*   pw(?:\W+\w+){0,6}\W+na | na(?:\W+\w+){0,6}\W+pw                       *)
(***************************************************************************)
GUARD_WINDOW == 6

AllNonWord(t, i, j) == \A k \in i..j : ~IsWord(t[k])

AllWord(t, i, j) == \A k \in i..j : IsWord(t[k])

\* (?:\W+\w+){0,k}\W+b matches t from position j on
RECURSIVE GapThen(_, _, _, _)
GapThen(t, j, b, k) ==
  \/ \E m \in 1..(Len(t) - j + 1) :
       /\ AllNonWord(t, j, j + m - 1)
       /\ OccursAt(b, t, j + m)
  \/ /\ k > 0
     /\ \E m \in 1..(Len(t) - j + 1) :
          /\ AllNonWord(t, j, j + m - 1)
          /\ \E n \in 1..(Len(t) - j - m + 1) :
               /\ AllWord(t, j + m, j + m + n - 1)
               /\ GapThen(t, j + m + n, b, k - 1)

\* re.search(a(?:\W+\w+){0,6}\W+b, t)
SearchNear(a, b, t) ==
  \E i \in 1..Len(t) : OccursAt(a, t, i) /\ GapThen(t, i + Len(a), b, GUARD_WINDOW)

\* Lines 225-231: the guardrail over the lowercased text.
Guardrail(text) ==
  LET t == lower(text)
  IN  \E pw \in POS_WORDS :
        /\ In(pw, t)
        /\ \E na \in NEG_ACTIONS :
             /\ In(na, t)
             /\ (SearchNear(pw, na, t) \/ SearchNear(na, pw, t))

(***************************************************************************)
(* Numbers: a score or probability is an exact rational <<n, d>>, d > 0,   *)
(* in lowest terms.                                                        *)
(***************************************************************************)
RECURSIVE GCD(_, _)
GCD(a, b) == IF b = 0 THEN a ELSE GCD(b, a % b)

Abs(n) == IF n < 0 THEN 0 - n ELSE n

Q(n, d) == LET g == GCD(Abs(n), d) IN <<n \div g, d \div g>>

Zero == Q(0, 1)

One == Q(1, 1)

QAdd(x, y) == Q(x[1] * y[2] + y[1] * x[2], x[2] * y[2])

QSub(x, y) == Q(x[1] * y[2] - y[1] * x[2], x[2] * y[2])

\* x / n for an integer n > 0
QDivInt(x, n) == Q(x[1], x[2] * n)

\* x / y for y > 0
QDiv(x, y) == Q(x[1] * y[2], x[2] * y[1])

QLt(x, y) == x[1] * y[2] < y[1] * x[2]

QLe(x, y) == x[1] * y[2] <= y[1] * x[2]

QMin(x, y) == IF QLe(x, y) THEN x ELSE y

QMax(x, y) == IF QLe(x, y) THEN y ELSE x

\* v / (s + 1e-9) for v <= s, both >= 0.  The guard term 1e-9 is far below the
\* resolution of the modelled scores (hundredths): a zero total gives
\* 0 / 1e-9 = 0, any other total gives v / s up to a relative 1e-7.
DivEps(v, s) == IF s = Zero THEN Zero ELSE QDiv(v, s)

\* The canonical classes, in the order the code writes its dict literals.
Canon == <<"Positive", "Neutral", "Negative">>

CanonSet == Range(Canon)

Triple(p, n, g) == [Positive |-> p, Neutral |-> n, Negative |-> g]

ZeroTriple == Triple(Zero, Zero, Zero)

TripleSum(p) == QAdd(p.Positive, QAdd(p.Neutral, p.Negative))

TripleAdd(p, q) == [k \in CanonSet |-> QAdd(p[k], q[k])]

TripleDiv(p, n) == [k \in CanonSet |-> QDivInt(p[k], n)]

(***************************************************************************)
(* Analyzer._sent_probs                                                    *)
(***************************************************************************)
\* {normalize_label(d['label']): d['score'] for d in out}: a dict
\* comprehension, so a later entry of out replaces an earlier one with the
\* same canonical key.
LabelToScore(out) ==
  LET keys == {normalize_label(out[i].label) : i \in 1..Len(out)}
      last(k) == CHOOSE i \in 1..Len(out) :
                   /\ normalize_label(out[i].label) = k
                   /\ \A j \in 1..Len(out) :
                        normalize_label(out[j].label) = k => j <= i
  IN  [k \in keys |-> out[last(k)].score]

\* label_to_score.setdefault(k, 0.0) for the three classes
WithDefaults(d) == [k \in CanonSet |-> IF k \in DOMAIN d THEN d[k] ELSE Zero]

sent_probs(out) ==
  LET d == WithDefaults(LabelToScore(out))
      s == TripleSum(d)
  IN  [k \in CanonSet |-> DivEps(d[k], s)]

(***************************************************************************)
(* Analyzer._label_from_probs: max over the items in dict order returns    *)
(* the first maximal item; agg and all_probs are built in the order        *)
(* Positive, Neutral, Negative.                                            *)
(***************************************************************************)
\* A plausible slip: of equal maxima the last one is taken.
label_from_probs_last(p) ==
  IF QLe(p.Positive, p.Negative) /\ QLe(p.Neutral, p.Negative) THEN "Negative"
  ELSE IF QLe(p.Positive, p.Neutral) THEN "Neutral"
  ELSE "Positive"

label_from_probs(p) ==
  IF QLe(p.Neutral, p.Positive) /\ QLe(p.Negative, p.Positive) THEN "Positive"
  ELSE IF QLe(p.Negative, p.Neutral) THEN "Neutral"
  ELSE "Negative"

(***************************************************************************)
(* Aggregation (analyze, lines 194-219)                                    *)
(***************************************************************************)
EmptyDict == <<>>

\* for a in labs: aspect_scores.setdefault(a, []).append(p)
AppendScores(aspect_scores, labs, p) ==
  [a \in (DOMAIN aspect_scores) \cup labs |->
     IF a \in DOMAIN aspect_scores
     THEN IF a \in labs THEN Append(aspect_scores[a], p) ELSE aspect_scores[a]
     ELSE <<p>>]

RECURSIVE SumTriples(_)
SumTriples(plist) ==
  IF plist = <<>> THEN ZeroTriple
  ELSE TripleAdd(Head(plist), SumTriples(Tail(plist)))

\* Lines 204-208: the mean of one aspect's clause distributions.
AspectMean(plist) ==
  TripleDiv(SumTriples(plist), IF Len(plist) > 1 THEN Len(plist) ELSE 1)

\* Lines 203-209 (the tuple's third component, plist, stays in aspect_scores).
AspectResults(aspect_scores) ==
  [a \in DOMAIN aspect_scores |->
     LET agg == AspectMean(aspect_scores[a])
     IN  [label |-> label_from_probs(agg), probs |-> agg]]

RECURSIVE SumOver(_, _)
SumOver(aspect_results, S) ==
  IF S = {} THEN ZeroTriple
  ELSE LET a == CHOOSE a \in S : TRUE
       IN  TripleAdd(aspect_results[a].probs, SumOver(aspect_results, S \ {a}))

RECURSIVE ConcatAll(_, _)
ConcatAll(aspect_scores, S) ==
  IF S = {} THEN <<>>
  ELSE LET a == CHOOSE a \in S : TRUE
       IN  aspect_scores[a] \o ConcatAll(aspect_scores, S \ {a})

\* What the comment of line 211 describes and the code does not do: the plain
\* average over all clause scores, an aspect weighing as many votes as it has
\* clauses.
OverallClauseWeighted(aspect_scores) ==
  AspectMean(ConcatAll(aspect_scores, DOMAIN aspect_scores))

\* Lines 212-218: the mean of the per-aspect means.
OverallProbs(aspect_scores) ==
  LET res   == AspectResults(aspect_scores)
      count == Cardinality(DOMAIN res)
      total == SumOver(res, DOMAIN res)
  IN  IF count > 0 THEN TripleDiv(total, count) ELSE total

(***************************************************************************)
(* Analyzer._sarcasm_flag                                                  *)
(***************************************************************************)
L_ENTAILMENT == <<"E","N","T","A","I","L","M","E","N","T">>

L_NEUTRAL == <<"N","E","U","T","R","A","L">>

L_CONTRADICTION == <<"C","O","N","T","R","A","D","I","C","T","I","O","N">>

L_LABEL_ == <<"L","A","B","E","L","_">>

\* The response values of the NLI pipeline: a list of items, a dict with a
\* label and a score, or anything else (None, a string, a number).
NliList(items) == [kind |-> "list", items |-> items, label |-> <<>>, score |-> Zero]

NliDict(label, score) == [kind |-> "dict", items |-> <<>>, label |-> label, score |-> score]

NliOther == [kind |-> "other", items |-> <<>>, label |-> <<>>, score |-> Zero]

\* Line 164: mapping.get(lab, lab)
RemapLabel(lab) ==
  IF lab = L_LABEL_ \o <<"0">> THEN L_CONTRADICTION
  ELSE IF lab = L_LABEL_ \o <<"1">> THEN L_NEUTRAL
  ELSE IF lab = L_LABEL_ \o <<"2">> THEN L_ENTAILMENT
  ELSE lab

\* {k: v for k, v in pairs}: the last pair of a label wins.
PairsDict(items) ==
  LET keys == {upper(items[i].label) : i \in 1..Len(items)}
      last(k) == CHOOSE i \in 1..Len(items) :
                   /\ upper(items[i].label) = k
                   /\ \A j \in 1..Len(items) : upper(items[j].label) = k => j <= i
  IN  [k \in keys |-> items[last(k)].score]

norm_nli_scores(res_item) ==
  IF res_item.kind = "list" THEN PairsDict(res_item.items)
  ELSE IF res_item.kind = "dict"
       THEN LET lab0 == upper(res_item.label)
                lab  == IF StartsWith(lab0, L_LABEL_) THEN RemapLabel(lab0) ELSE lab0
            IN  [k \in {L_ENTAILMENT, L_NEUTRAL, L_CONTRADICTION, lab} |->
                   IF k = lab THEN res_item.score ELSE Zero]
       ELSE [k \in {L_ENTAILMENT, L_NEUTRAL, L_CONTRADICTION} |-> Zero]

\* Lines 175-177 of contradiction_prob, on the pipeline's return value out.
ContradictionOf(out) ==
  LET first  == IF out.kind = "list" THEN out.items[1] ELSE out
      scores == norm_nli_scores(first)
  IN  IF L_CONTRADICTION \in DOMAIN scores THEN scores[L_CONTRADICTION] ELSE Zero

\* The threshold of line 183.
SARCASM_THRESHOLD == Q(3, 5)

\* Line 182
Dominant(probs) ==
  IF QLe(probs.Negative, probs.Positive) THEN "Positive" ELSE "Negative"

\* A plausible slip: the threshold is met, not exceeded.
PrimaryFlagInclusive(probs, c_pos, c_neg) ==
  \/ Dominant(probs) = "Positive" /\ QLe(SARCASM_THRESHOLD, c_pos)
  \/ Dominant(probs) = "Negative" /\ QLe(SARCASM_THRESHOLD, c_neg)

\* Line 183
PrimaryFlag(probs, c_pos, c_neg) ==
  \/ Dominant(probs) = "Positive" /\ QLt(SARCASM_THRESHOLD, c_pos)
  \/ Dominant(probs) = "Negative" /\ QLt(SARCASM_THRESHOLD, c_neg)

(***************************************************************************)
(* The result adjustment (analyze, lines 233-238)                          *)
(***************************************************************************)
ADJUST_MARGIN == Q(1, 4)

ADJUST_SHIFT == Q(1, 10)

Adjusts(sarcasm, overall_label, all_probs) ==
  /\ sarcasm
  /\ overall_label = "Positive"
  /\ QLt(QSub(all_probs.Positive, all_probs.Negative), ADJUST_MARGIN)

AdjustedProbs(all_probs) ==
  [Positive |-> QMax(Zero, QSub(all_probs.Positive, ADJUST_SHIFT)),
   Neutral  |-> QMin(One, QAdd(all_probs.Neutral, ADJUST_SHIFT)),
   Negative |-> all_probs.Negative]

\* Line 190: the result for an empty text.
EmptyResult ==
  [overall |-> "Neutral", probs |-> Triple(Zero, One, Zero),
   sarcasm |-> FALSE, aspects |-> EmptyDict]


(***************************************************************************)
(* The two pipelines the Analyzer holds (self.sentiment, self.nli).  They  *)
(* are external capabilities: a response is one of the shapes below.       *)
(***************************************************************************)
Pair(label, n) == [label |-> label, score |-> Q(n, 100)]

\* What self.sentiment(text)[0] can be: a list of label/score dicts in the
\* vendor's vocabulary, scores in hundredths.
ValenceOutputs ==
  << \* a weak positive reading: margin 0.24
     <<Pair(<<"p","o","s","i","t","i","v","e">>, 44), Pair(<<"n","e","u","t","r","a","l">>, 36), Pair(<<"n","e","g","a","t","i","v","e">>, 20)>>,
     \* margin exactly 0.25
     <<Pair(<<"p","o","s","i","t","i","v","e">>, 45), Pair(<<"n","e","u","t","r","a","l">>, 35), Pair(<<"n","e","g","a","t","i","v","e">>, 20)>>,
     \* a strong positive reading, upper-case labels
     <<Pair(<<"P","O","S","I","T","I","V","E">>, 80), Pair(<<"N","E","U","T","R","A","L">>, 10), Pair(<<"N","E","G","A","T","I","V","E">>, 10)>>,
     \* a negative reading
     <<Pair(<<"n","e","g","a","t","i","v","e">>, 50), Pair(<<"n","e","u","t","r","a","l">>, 30), Pair(<<"p","o","s","i","t","i","v","e">>, 20)>>,
     \* a five-star vocabulary: two labels for Positive, two for Negative
     <<Pair(<<"1"," ","s","t","a","r">>, 5), Pair(<<"2"," ","s","t","a","r","s">>, 5), Pair(<<"3"," ","s","t","a","r","s">>, 10),
       Pair(<<"4"," ","s","t","a","r","s">>, 30), Pair(<<"5"," ","s","t","a","r","s">>, 50)>>,
     \* all-zero scores
     <<Pair(<<"p","o","s","i","t","i","v","e">>, 0), Pair(<<"n","e","u","t","r","a","l">>, 0), Pair(<<"n","e","g","a","t","i","v","e">>, 0)>>,
     \* two classes only, scores not summing to 1
     <<Pair(<<"P","O","S">>, 60), Pair(<<"N","E","G">>, 20)>>,
     \* positional labels
     <<Pair(<<"L","A","B","E","L","_","0">>, 70), Pair(<<"L","A","B","E","L","_","1">>, 20), Pair(<<"L","A","B","E","L","_","2">>, 10)>>,
     \* Positive and Negative tie, the negative label listed first
     <<Pair(<<"n","e","g","a","t","i","v","e">>, 40), Pair(<<"n","e","u","t","r","a","l">>, 20), Pair(<<"p","o","s","i","t","i","v","e">>, 40)>>,
     \* a weak positive reading with Negative close behind and Neutral low
     <<Pair(<<"p","o","s","i","t","i","v","e">>, 45), Pair(<<"n","e","u","t","r","a","l">>, 11), Pair(<<"n","e","g","a","t","i","v","e">>, 44)>>,
     \* Positive and Neutral tie, the neutral label listed first
     <<Pair(<<"n","e","u","t","r","a","l">>, 40), Pair(<<"p","o","s","i","t","i","v","e">>, 40), Pair(<<"n","e","g","a","t","i","v","e">>, 20)>> >>

NliItem(label, n) == NliDict(label, Q(n, 100))

\* What self.nli({...}) can return.
NliOutputs ==
  << \* [[...]]: all scores, semantic labels, contradiction 0.7
     NliList(<<NliList(<<NliItem(<<"E","N","T","A","I","L","M","E","N","T">>, 10), NliItem(<<"N","E","U","T","R","A","L">>, 20),
                         NliItem(<<"C","O","N","T","R","A","D","I","C","T","I","O","N">>, 70)>>)>>),
     \* contradiction exactly 0.6
     NliList(<<NliList(<<NliItem(<<"c","o","n","t","r","a","d","i","c","t","i","o","n">>, 60), NliItem(<<"n","e","u","t","r","a","l">>, 10),
                         NliItem(<<"e","n","t","a","i","l","m","e","n","t">>, 30)>>)>>),
     \* zero contradiction
     NliList(<<NliList(<<NliItem(<<"e","n","t","a","i","l","m","e","n","t">>, 100), NliItem(<<"n","e","u","t","r","a","l">>, 0),
                         NliItem(<<"c","o","n","t","r","a","d","i","c","t","i","o","n">>, 0)>>)>>),
     \* [[...]]: all scores, positional labels, LABEL_0 0.9
     NliList(<<NliList(<<NliItem(<<"L","A","B","E","L","_","0">>, 90), NliItem(<<"L","A","B","E","L","_","1">>, 5),
                         NliItem(<<"L","A","B","E","L","_","2">>, 5)>>)>>),
     \* a single best pair
     NliItem(<<"C","O","N","T","R","A","D","I","C","T","I","O","N">>, 90),
     NliItem(<<"L","A","B","E","L","_","0">>, 90),
     NliItem(<<"L","A","B","E","L","_","2">>, 95),
     \* [...]: a flat list, best pair first
     NliList(<<NliItem(<<"c","o","n","t","r","a","d","i","c","t","i","o","n">>, 70), NliItem(<<"n","e","u","t","r","a","l">>, 20),
               NliItem(<<"e","n","t","a","i","l","m","e","n","t">>, 10)>>),
     \* a label of neither vocabulary
     NliItem(<<"u","n","k","n","o","w","n">>, 90),
     \* neither a list nor a dict
     NliOther >>

\* Lines 143-144
hyp_pos == <<"T","h","i","s"," ","r","e","v","i","e","w"," ","i","s"," ","p","o","s","i","t","i","v","e",".">>

hyp_neg == <<"T","h","i","s"," ","r","e","v","i","e","w"," ","i","s"," ","n","e","g","a","t","i","v","e",".">>

\* A classifier is either unconstrained (each call returns any response, or
\* raises) or a deterministic stub: a fixed function of its input, chosen by
\* a seed, that always answers.
AnyClassifier == [kind |-> "any", seed |-> 0]

Stub(seed) == [kind |-> "stub", seed |-> seed]

CharCode(c) ==
  IF \E i \in 1..Len(LowerAlpha) : LowerAlpha[i] = LowerChar(c)
  THEN CHOOSE i \in 1..Len(LowerAlpha) : LowerAlpha[i] = LowerChar(c)
  ELSE 0

RECURSIVE Weight(_)
Weight(s) == IF s = <<>> THEN 0 ELSE CharCode(Head(s)) + Weight(Tail(s))

\* Whether a call of the classifier can raise instead of returning.
MayRaise(classifier) == classifier.kind = "any"

\* The possible results of self.sentiment(text)[0]
SentimentCall(classifier, text) ==
  IF classifier.kind = "any"
  THEN Range(ValenceOutputs)
  ELSE {ValenceOutputs[((Weight(text) + classifier.seed) % Len(ValenceOutputs)) + 1]}

\* The possible results of self.nli({"text": premise, "text_pair": hypothesis})
NliCall(classifier, premise, hypothesis) ==
  IF classifier.kind = "any"
  THEN Range(NliOutputs)
  ELSE {NliOutputs[((Weight(premise) + Weight(hypothesis) + classifier.seed)
                      % Len(NliOutputs)) + 1]}

(***************************************************************************)
(* The texts the callers submit.                                           *)
(***************************************************************************)
\* The largest number of filler words put between two guardrail words.
MaxGap == 7

\* The largest number of phrases joined into one text.
MaxParts == 2

\* The number of callers sharing the Analyzer.
NumCallers == 2

\* The largest seed of a stub classifier.
MaxSeed == 1

\* Texts of the sequential caller: the empty and blank inputs, the examples of
\* the documentation, texts of delimiters only, words that contain a
\* configured word, and texts of two clauses.
FixedTexts ==
  {<<>>,
   <<" "," ">>,
   <<" ","\n","\t">>,
   <<"o","k">>,
   <<"T","h","e"," ","c","a","m","e","r","a"," ","i","s"," ","a","m","a","z","i","n","g">>,
   <<"I","t","'","s"," ","f","i","n","e"," ","I"," ","g","u","e","s","s">>,
   <<".",".",".">>,
   <<"b","u","t">>,
   <<"g","l","o","v","e"," ","c","r","a","s","h","e","s">>,
   <<"g","r","e","a","t","l","y"," ","c","r","a","s","h","e","s">>,
   <<"n","i","c","e"," ","t","h","o","u","g","h"," ","s","l","o","w">>,
   <<"G","r","e","a","t"," ","c","a","m","e","r","a"," ","b","u","t"," ","t","e","r","r","i","b","l","e"," ","b","a","t","t","e","r","y"," ","l","i","f","e",".">>,
   <<"b","a","t","t","e","r","y"," ","o","k",","," ","p","o","w","e","r"," ","l","o","w">>,
   <<"b","a","t","t","e","r","y"," ","o","k",","," ","c","a","m","e","r","a"," ","p","o","w","e","r">>,
   <<"g","r","e","a","t"," ","c","a","m","e","r","a",","," ","b","u","t"," ","i","t"," ","c","o","n","s","t","a","n","t","l","y"," ","c","r","a","s","h","e","s">>}

RECURSIVE Fill(_)
Fill(k) == IF k = 0 THEN <<>> ELSE <<" ", "x">> \o Fill(k - 1)

\* a, k filler words, b
Near(a, k, b) == a \o Fill(k) \o <<" ">> \o b

W_amazing == <<"a","m","a","z","i","n","g">>

W_crashes == <<"c","r","a","s","h","e","s">>

WindowTexts ==
  {Near(W_amazing, k, W_crashes) : k \in 0..MaxGap}
    \cup {Near(W_crashes, k, W_amazing) : k \in 0..MaxGap}

Texts == FixedTexts \cup WindowTexts

\* Phrases of the lexical texts.
LexPhrases ==
  {<<"G","r","e","a","t"," ","c","a","m","e","r","a">>,
   <<"t","e","r","r","i","b","l","e"," ","b","a","t","t","e","r","y"," ","l","i","f","e">>,
   <<"n","i","c","e"," ","U","I">>,
   <<"h","a","p","p","y">>,
   <<"b","u","t","t","e","r">>}

\* What joins two phrases: delimiters of the pattern, a word that is none of
\* them, a blank, and a delimiter word that is part of a longer word.
LexSeps ==
  {<<".">>,
   <<" ",";"," ",","," ">>,
   <<" ","b","u","t"," ">>,
   <<" ","H","o","w","e","v","e","r"," ">>,
   <<" ","t","h","o","u","g","h"," ">>,
   <<" ","y","e","t"," ">>,
   <<" ","a","l","t","h","o","u","g","h"," ">>,
   <<" ","n","e","v","e","r","t","h","e","l","e","s","s"," ">>,
   <<" ","N","O","N","E","T","H","E","L","E","S","S"," ">>,
   <<" ">>,
   <<"b","u","t">>}

\* How a text of two phrases is made longer.
LexTailSeps == {<<" ","b","u","t"," ">>, <<" ","t","h","o","u","g","h"," ">>}

LexTailPhrases == {<<"h","a","p","p","y">>}

\* The texts of n phrases: every phrase and separator for the first two
\* phrases, the tail separators and phrases after them.
RECURSIVE Joined(_)
Joined(n) ==
  IF n <= 1 THEN LexPhrases
  ELSE IF n = 2
    THEN {t \o s \o p : t \in LexPhrases, s \in LexSeps, p \in LexPhrases}
    ELSE {t \o s \o p : t \in Joined(n - 1), s \in LexTailSeps, p \in LexTailPhrases}

LexTexts == UNION {Joined(n) : n \in 1..MaxParts}

\* Texts of the callers that share the Analyzer.
SharedTexts ==
  {<<>>,
   <<"b","a","t","t","e","r","y"," ","o","k",","," ","c","a","m","e","r","a"," ","p","o","w","e","r">>,
   <<"a","m","a","z","i","n","g"," ","c","r","a","s","h","e","s">>}

(***************************************************************************)
(* State: the two pipelines of the Analyzer and, per caller, the frame of  *)
(* its analyze invocation (the locals of analyze and of _sarcasm_flag, the *)
(* position in the code, and the record of the calls made).                *)
(***************************************************************************)
VARIABLES sentiment, nli, frames

vars == <<sentiment, nli, frames>>

Callers == 1..NumCallers

\* The caller of the GUI: App.detect_sentiment runs on the one event loop.
Gui == {1}

NoResult ==
  [overall |-> "", probs |-> ZeroTriple, sarcasm |-> FALSE, aspects |-> EmptyDict]

IdleFrame ==
  [pc |-> "idle", arg |-> <<>>, text |-> <<>>, parts |-> <<>>, clauses |-> <<>>,
   scored |-> <<>>, aspect_scores |-> EmptyDict, aspect_results |-> EmptyDict,
   all_probs |-> ZeroTriple, overall_label |-> "",
   agg_probs |-> ZeroTriple, agg_label |-> "",
   nli_out |-> NliOther, c_pos |-> Zero, c_neg |-> Zero,
   primary |-> FALSE, sarcasm |-> FALSE, result |-> NoResult,
   n_sentiment |-> 0, n_nli |-> 0, queries |-> <<>>, failed |-> FALSE]

\* A plausible slip: the segmentation is used as it is.
ClausesNoFallback(parts, text) == parts

\* Line 193: split_clauses(text) or [text]
ClausesOf(parts, text) == IF parts # <<>> THEN parts ELSE <<text>>

\* A plausible slip: the loop is left after its first iteration.
LoopDoneEarly(scored, clauses) == Len(scored) >= 1

\* Line 195: the loop over the clauses has come to its end.
LoopDone(scored, clauses) == Len(scored) = Len(clauses)

\* Lines 168-170: a response that is neither a list nor a dict.
Malformed(out) ==
  LET first == IF out.kind = "list" THEN out.items[1] ELSE out
  IN  first.kind = "other"

\* Lines 187-194: the call, the trimming, the early return, the segmentation.
Analyze(t, x) ==
  /\ frames[t].pc = "idle"
  /\ LET text  == strip(x)
         parts == split_clauses(text)
     IN  frames' = [frames EXCEPT ![t] =
           IF text = <<>>
           THEN [@ EXCEPT !.pc = "done", !.arg = x, !.result = EmptyResult]
           ELSE [@ EXCEPT
                   !.pc = "score", !.arg = x, !.text = text, !.parts = parts,
                   !.clauses = ClausesOf(parts, text)]]
  /\ UNCHANGED <<sentiment, nli>>

\* Lines 195-199, one iteration: the clause is scored, tagged and filed.
ScoreClause(t) ==
  LET f == frames[t]
  IN  /\ f.pc = "score"
      /\ Len(f.scored) < Len(f.clauses)
      /\ \E out \in SentimentCall(sentiment, f.clauses[Len(f.scored) + 1]) :
           LET c    == f.clauses[Len(f.scored) + 1]
               p    == sent_probs(out)
               labs == detect_aspects(c)
           IN  frames' = [frames EXCEPT ![t] =
                 [f EXCEPT !.scored = Append(@, [out |-> out, p |-> p, labs |-> labs]),
                           !.aspect_scores = AppendScores(@, labs, p),
                           !.n_sentiment = @ + 1]]
      /\ UNCHANGED <<sentiment, nli>>

\* Line 121 raises (the call fails, or its response cannot be read as a list
\* of label/score dicts): nothing in analyze catches it.
ScoreRaises(t) ==
  LET f == frames[t]
  IN  /\ f.pc = "score"
      /\ Len(f.scored) < Len(f.clauses)
      /\ MayRaise(sentiment)
      /\ frames' = [frames EXCEPT ![t] =
                      [f EXCEPT !.pc = "error", !.n_sentiment = @ + 1, !.failed = TRUE]]
      /\ UNCHANGED <<sentiment, nli>>

\* Lines 201-219
Aggregate(t) ==
  LET f == frames[t]
      overall == OverallProbs(f.aspect_scores)
  IN  /\ f.pc = "score"
      /\ LoopDone(f.scored, f.clauses)
      /\ frames' = [frames EXCEPT ![t] =
                      [f EXCEPT !.pc = "nli_pos",
                                !.aspect_results = AspectResults(f.aspect_scores),
                                !.all_probs = overall,
                                !.overall_label = label_from_probs(overall),
                                !.agg_probs = overall,
                                !.agg_label = label_from_probs(overall)]]
      /\ UNCHANGED <<sentiment, nli>>

\* Line 179: c_pos = contradiction_prob(hyp_pos)
NliPos(t) ==
  LET f == frames[t]
  IN  /\ f.pc = "nli_pos"
      /\ \E out \in NliCall(nli, f.text, hyp_pos) :
           frames' = [frames EXCEPT ![t] =
             [f EXCEPT !.pc = "nli_neg", !.nli_out = out,
                       !.c_pos = ContradictionOf(out), !.n_nli = @ + 1,
                       !.queries = Append(@, [premise |-> f.text, hypothesis |-> hyp_pos]),
                       !.failed = Malformed(out)]]
      /\ UNCHANGED <<sentiment, nli>>

\* Lines 180-183 and 222: c_neg = contradiction_prob(hyp_neg), and
\* _sarcasm_flag returns.  c_pos and c_neg stay recorded until the guardrail
\* has run.
NliNeg(t) ==
  LET f == frames[t]
  IN  /\ f.pc = "nli_neg"
      /\ \E out \in NliCall(nli, f.text, hyp_neg) :
           LET c_neg == ContradictionOf(out)
               flag  == PrimaryFlag(f.all_probs, f.c_pos, c_neg)
           IN  frames' = [frames EXCEPT ![t] =
                 [f EXCEPT !.pc = "guard", !.nli_out = NliOther, !.c_neg = c_neg,
                           !.primary = flag, !.sarcasm = flag, !.n_nli = @ + 1,
                           !.queries = Append(@, [premise |-> f.text, hypothesis |-> hyp_neg]),
                           !.failed = (f.failed \/ Malformed(out))]]
      /\ UNCHANGED <<sentiment, nli>>

\* Line 173 raises: nothing in _sarcasm_flag or analyze catches it.
NliRaises(t) ==
  LET f == frames[t]
  IN  /\ f.pc \in {"nli_pos", "nli_neg"}
      /\ MayRaise(nli)
      /\ frames' = [frames EXCEPT ![t] =
                      [f EXCEPT !.pc = "error", !.n_nli = @ + 1, !.failed = TRUE]]
      /\ UNCHANGED <<sentiment, nli>>

\* Lines 223-231: the guardrail.
Guard(t) ==
  LET f == frames[t]
  IN  /\ f.pc = "guard"
      /\ frames' = [frames EXCEPT ![t] =
                      [f EXCEPT !.pc = "adjust",
                                !.sarcasm = IF f.sarcasm THEN TRUE ELSE Guardrail(f.text),
                                !.nli_out = NliOther, !.c_pos = Zero, !.c_neg = Zero]]
      /\ UNCHANGED <<sentiment, nli>>

\* Lines 233-249
Adjust(t) ==
  LET f == frames[t]
      acts  == Adjusts(f.sarcasm, f.overall_label, f.all_probs)
      probs == IF acts THEN AdjustedProbs(f.all_probs) ELSE f.all_probs
      label == IF acts THEN label_from_probs(probs) ELSE f.overall_label
  IN  /\ f.pc = "adjust"
      /\ frames' = [frames EXCEPT ![t] =
                      [f EXCEPT !.pc = "done", !.all_probs = probs,
                                !.overall_label = label,
                                !.result = [overall |-> label, probs |-> probs,
                                            sarcasm |-> f.sarcasm,
                                            aspects |-> f.aspect_results]]]
      /\ UNCHANGED <<sentiment, nli>>

\* A plausible slip: aspect_scores outlives the invocation (an attribute of the
\* Analyzer, or a mutable default, instead of the local of line 194).
ReleasedKeepingScores(frame) ==
  [IdleFrame EXCEPT !.aspect_scores = frame.aspect_scores]

\* What is left of an invocation's frame once analyze has returned or raised:
\* every name of lines 188-238 is a local, so nothing.
Released(frame) == IdleFrame

\* analyze returns its result (line 244), or the exception reaches the caller.
Return(t) ==
  /\ frames[t].pc \in {"done", "error"}
  /\ frames' = [frames EXCEPT ![t] = Released(@)]
  /\ UNCHANGED <<sentiment, nli>>

\* The steps of an invocation whose classifiers answer.
Answered(t) ==
  \/ ScoreClause(t)
  \/ Aggregate(t)
  \/ NliPos(t)
  \/ NliNeg(t)
  \/ Guard(t)
  \/ Adjust(t)
  \/ Return(t)

\* The steps at which a classifier raises.
Failed(t) == ScoreRaises(t) \/ NliRaises(t)

Idle == [t \in Callers |-> IdleFrame]

(***************************************************************************)
(* Spec: one caller, unconstrained classifiers.                            *)
(***************************************************************************)
Init ==
  /\ sentiment = AnyClassifier
  /\ nli = AnyClassifier
  /\ frames = Idle

Next ==
  \E t \in Gui :
    \/ \E x \in Texts : Analyze(t, x)
    \/ Answered(t)
    \/ Failed(t)

Spec == Init /\ [][Next]_vars

(***************************************************************************)
(* SpecLexical: one caller, one deterministic stub of each classifier, the *)
(* texts joined from phrases and separators.                               *)
(***************************************************************************)
InitLexical ==
  /\ sentiment = Stub(0)
  /\ nli = Stub(0)
  /\ frames = Idle

NextLexical ==
  \E t \in Gui :
    \/ \E x \in LexTexts : Analyze(t, x)
    \/ Answered(t)

SpecLexical == InitLexical /\ [][NextLexical]_vars

(***************************************************************************)
(* SpecShared: several callers interleave their invocations on one         *)
(* Analyzer whose classifiers are deterministic stubs.                     *)
(***************************************************************************)
InitShared ==
  /\ \E s \in 0..MaxSeed :
       /\ sentiment = Stub(s)
       /\ nli = Stub(MaxSeed - s)
  /\ frames = Idle

NextShared ==
  \E t \in Callers :
    \/ \E x \in SharedTexts : Analyze(t, x)
    \/ Answered(t)

SpecShared == InitShared /\ [][NextShared]_vars

(***************************************************************************)
(* Properties                                                              *)
(***************************************************************************)
\* The input is not empty after trimming.
NonBlank(x) == \E i \in 1..Len(x) : ~IsSpace(x[i])

\* The frames whose invocation has returned a result.
Returned == {t \in Callers : frames[t].pc = "done"}

\* The frames whose invocation has aggregated its overall distribution.
Aggregated ==
  {t \in Callers : frames[t].pc \in {"nli_pos", "nli_neg", "guard", "adjust", "done"}
                   /\ frames[t].text # <<>>}

InUnit(q) == 0 <= q[1] /\ q[1] <= q[2]

Tolerance == Q(1, 1000000)

Near1(q) == QLe(QSub(One, Tolerance), q) /\ QLe(q, QAdd(One, Tolerance))

\* C1: for every input that is not blank and every response of the valence
\* classifier, the probs of the returned result lie in [0,1] and sum to 1
\* within tolerance, adjusted or not.
C1_ProbsAreADistribution ==
  \A t \in Returned :
    NonBlank(frames[t].arg) =>
      LET p == frames[t].result.probs
      IN  /\ InUnit(p.Positive) /\ InUnit(p.Neutral) /\ InUnit(p.Negative)
          /\ Near1(TripleSum(p))

\* The result documented for an empty text, written out.
DegenerateResult ==
  [overall |-> "Neutral",
   probs |-> [Positive |-> <<0, 1>>, Neutral |-> <<1, 1>>, Negative |-> <<0, 1>>],
   sarcasm |-> FALSE,
   aspects |-> <<>>]

\* C2: an invocation on an empty or whitespace-only input returns exactly the
\* degenerate result and calls neither classifier.
C2_BlankInputShortCircuits ==
  \A t \in Callers :
    (frames[t].pc # "idle" /\ ~NonBlank(frames[t].arg)) =>
      /\ frames[t].pc = "done"
      /\ frames[t].result = DegenerateResult
      /\ frames[t].n_sentiment = 0
      /\ frames[t].n_nli = 0

\* C2 witness: a whitespace-only input has returned.
C2_Witness ==
  \E t \in Returned :
    /\ frames[t].arg # <<>>
    /\ ~NonBlank(frames[t].arg)
    /\ frames[t].result = DegenerateResult

\* The condition under which the adjustment acts, on the aggregated
\* distribution: sarcasm, label Positive, Positive - Negative < 0.25.
WeakPositive(f) ==
  /\ f.sarcasm
  /\ f.agg_label = "Positive"
  /\ QLt(QSub(f.agg_probs.Positive, f.agg_probs.Negative), Q(1, 4))

\* C3: the returned distribution differs from the aggregated one exactly when
\* sarcasm is flagged, the label is Positive and the margin is below 0.25;
\* then Positive is 0.10 lower, Neutral 0.10 higher, Negative the same and the
\* label that of the new distribution; otherwise distribution and label are
\* the aggregated ones.
C3_AdjustmentIsTheNudge ==
  \A t \in Returned :
    NonBlank(frames[t].arg) =>
      LET f == frames[t]
          r == f.result
      IN  /\ (r.probs # f.agg_probs) <=> WeakPositive(f)
          /\ WeakPositive(f) =>
               /\ r.probs.Positive = QSub(f.agg_probs.Positive, Q(1, 10))
               /\ r.probs.Neutral = QAdd(f.agg_probs.Neutral, Q(1, 10))
               /\ r.probs.Negative = f.agg_probs.Negative
               /\ r.overall = label_from_probs(r.probs)
          /\ ~WeakPositive(f) =>
               /\ r.probs = f.agg_probs
               /\ r.overall = f.agg_label

\* The sum of g over the indices in S.
RECURSIVE SumIdx(_, _)
SumIdx(g, S) ==
  IF S = {} THEN Zero
  ELSE LET i == CHOOSE i \in S : TRUE IN QAdd(g[i], SumIdx(g, S \ {i}))

\* The clauses of a frame tagged with bucket a.
Tagged(f, a) == {i \in 1..Len(f.scored) : a \in f.scored[i].labs}

\* Component k of the arithmetic mean of the distributions of the clauses
\* tagged with a.
ClauseMean(f, a, k) ==
  QDivInt(SumIdx([i \in Tagged(f, a) |-> f.scored[i].p[k]], Tagged(f, a)),
          Cardinality(Tagged(f, a)))

\* The buckets some clause of the frame is tagged with.
Buckets(f) == UNION {f.scored[i].labs : i \in 1..Len(f.scored)}

RECURSIVE SumSet(_, _)
SumSet(g, S) ==
  IF S = {} THEN Zero
  ELSE LET a == CHOOSE a \in S : TRUE IN QAdd(g[a], SumSet(g, S \ {a}))

\* aspect_scores as the loop of lines 195-199 builds it from the clauses taken
\* in the order idx.
RECURSIVE ScoresInOrder(_, _)
ScoresInOrder(f, idx) ==
  IF idx = <<>> THEN EmptyDict
  ELSE AppendScores(ScoresInOrder(f, SubSeq(idx, 1, Len(idx) - 1)),
                    f.scored[idx[Len(idx)]].labs, f.scored[idx[Len(idx)]].p)

Reversed(n) == [i \in 1..n |-> n + 1 - i]

RECURSIVE ClassScore(_, _)
ClassScore(out, k) ==
  IF out = <<>> THEN Zero
  ELSE QAdd(IF normalize_label(Head(out).label) = k THEN Head(out).score ELSE Zero,
            ClassScore(Tail(out), k))

\* C5: each canonical class receives the sum of the scores of all vendor
\* labels that map to it, 0 when none does, and the three are divided by their
\* total plus epsilon.
C5_ClassScoresAreSummed ==
  \A t \in Callers :
    \A i \in 1..Len(frames[t].scored) :
      LET out == frames[t].scored[i].out
          total == QAdd(ClassScore(out, "Positive"),
                        QAdd(ClassScore(out, "Neutral"), ClassScore(out, "Negative")))
      IN  \A k \in CanonSet :
            frames[t].scored[i].p[k] = DivEps(ClassScore(out, k), total)

\* The conjunctions the segmentation is documented to split at.
DocumentedConjunctions ==
  {<<"b","u","t">>, <<"h","o","w","e","v","e","r">>, <<"t","h","o","u","g","h">>, <<"y","e","t">>,
   <<"a","l","t","h","o","u","g","h">>, <<"n","e","v","e","r","t","h","e","l","e","s","s">>, <<"n","o","n","e","t","h","e","l","e","s","s">>}

\* w stands at position i of text as a whole word, in any case.
WholeWordAt(text, i, w) ==
  /\ i >= 1
  /\ i + Len(w) - 1 <= Len(text)
  /\ \A n \in 1..Len(w) : LowerChar(text[i + n - 1]) = w[n]
  /\ (i = 1 \/ ~IsWord(text[i - 1]))
  /\ (i + Len(w) > Len(text) \/ ~IsWord(text[i + Len(w)]))

\* The positions of text inside a documented delimiter.
DelimiterPositions(text) ==
  {i \in 1..Len(text) :
     \/ text[i] \in {".", ";", ","}
     \/ \E w \in DocumentedConjunctions :
          \E s \in (i - Len(w) + 1)..i : WholeWordAt(text, s, w)}

\* The maximal delimiter-free stretches of text from position i on, in order.
RECURSIVE Stretches(_, _, _)
Stretches(text, D, i) ==
  IF i > Len(text) THEN <<>>
  ELSE IF i \in D THEN Stretches(text, D, i + 1)
  ELSE LET j == CHOOSE j \in i..Len(text) :
                  /\ \A k \in i..j : k \notin D
                  /\ (j = Len(text) \/ j + 1 \in D)
       IN  <<SubSeq(text, i, j)>> \o Stretches(text, D, j + 1)

\* s without the blanks around it, for an s that is not blank
Trimmed(s) ==
  LET solid == {i \in 1..Len(s) : ~IsSpace(s[i])}
      first == CHOOSE i \in solid : \A j \in solid : i <= j
      last  == CHOOSE i \in solid : \A j \in solid : j <= i
  IN  SubSeq(s, first, last)

RECURSIVE TrimmedSolid(_)
TrimmedSolid(ss) ==
  IF ss = <<>> THEN <<>>
  ELSE IF NonBlank(Head(ss)) THEN <<Trimmed(Head(ss))>> \o TrimmedSolid(Tail(ss))
  ELSE TrimmedSolid(Tail(ss))

\* C6: split_clauses splits at every '.', ';', ',' and at every whole-word
\* occurrence, in any case, of but, however, though, yet, although,
\* nevertheless, nonetheless; it returns the stretches between these
\* delimiters, in text order, trimmed, without the blank ones.
C6_SplitsAtEveryDocumentedDelimiter ==
  \A t \in Callers :
    (frames[t].pc # "idle" /\ frames[t].text # <<>>) =>
      frames[t].parts =
        TrimmedSolid(Stretches(frames[t].text, DelimiterPositions(frames[t].text), 1))

\* kw occurs in clause, whatever the case of the clause's letters.
KeywordOccurs(kw, clause) ==
  \E j \in 1..(Len(clause) - Len(kw) + 1) :
    \A n \in 1..Len(kw) : LowerChar(clause[j + n - 1]) = kw[n]

\* The configured buckets with a keyword occurring in clause.
Matching(clause) ==
  {b \in DOMAIN ASPECT_KEYWORDS : \E kw \in ASPECT_KEYWORDS[b] : KeywordOccurs(kw, clause)}

\* C7: the tags of every clause are never empty; they are exactly the buckets
\* with a keyword occurring in the clause, and {general} exactly when no
\* keyword of any bucket occurs; general never accompanies a bucket.
C7_TagsAreTheMatchingBuckets ==
  \A t \in Callers :
    \A i \in 1..Len(frames[t].scored) :
      LET labs == frames[t].scored[i].labs
          m    == Matching(frames[t].clauses[i])
      IN  /\ labs # {}
          /\ m # {} => labs = m
          /\ (labs = {"general"}) <=> (m = {})
          /\ "general" \in labs => labs = {"general"}

\* C7 witness: a clause tagged with two buckets, one of them by a keyword in
\* upper case only, and general not among them.
C7_Witness ==
  \E t \in Callers :
    \E i \in 1..Len(frames[t].scored) :
      /\ frames[t].clauses[i] = <<"G","r","e","a","t"," ","c","a","m","e","r","a"," ","n","i","c","e"," ","U","I">>
      /\ frames[t].scored[i].labs = {"camera", "software"}

\* C8: the dominant sentiment is Positive when Positive >= Negative in the
\* overall distribution and Negative otherwise, and the primary signal flags
\* exactly when the contradiction probability of the dominant polarity's
\* hypothesis is greater than 0.6.
C8_PrimaryFlagsAboveThreshold ==
  \A t \in Callers :
    frames[t].pc = "guard" =>
      LET f == frames[t]
          p == f.agg_probs
          positive == p.Positive[1] * p.Negative[2] >= p.Negative[1] * p.Positive[2]
          c == IF positive THEN f.c_pos ELSE f.c_neg
      IN  f.primary <=> (5 * c[1] > 3 * c[2])

\* C8 witness: Positive and Negative tie, the positive hypothesis is
\* contradicted with exactly 0.6 and the negative one with 0.9: no flag.
C8_Witness ==
  \E t \in Callers :
    /\ frames[t].pc = "guard"
    /\ frames[t].agg_probs.Positive = frames[t].agg_probs.Negative
    /\ frames[t].agg_probs.Positive # Zero
    /\ frames[t].c_pos = Q(6, 10)
    /\ frames[t].c_neg = Q(9, 10)
    /\ ~frames[t].primary

\* The words of s: its maximal stretches of word characters, in order.
RECURSIVE WordsOf(_, _)
WordsOf(s, i) ==
  IF i > Len(s) THEN <<>>
  ELSE IF ~IsWord(s[i]) THEN WordsOf(s, i + 1)
  ELSE LET j == CHOOSE j \in i..Len(s) :
                  /\ \A k \in i..j : IsWord(s[k])
                  /\ (j = Len(s) \/ ~IsWord(s[j + 1]))
       IN  <<SubSeq(s, i, j)>> \o WordsOf(s, j + 1)

\* A positive word and a negative-action word stand in the lowercased text
\* with at most six words between them, in either order.
WordsNear(text) ==
  LET w == WordsOf(lower(text), 1)
  IN  \E i, j \in 1..Len(w) :
        /\ w[i] \in POS_WORDS
        /\ w[j] \in NEG_ACTIONS
        /\ (IF i < j THEN j - i ELSE i - j) <= 7

\* C9: when the primary signal did not flag, the returned flag is true
\* exactly when a configured positive word and a configured negative-action
\* word stand within the window; when it flagged, the flag is true.
C9_GuardrailDecidesWhenPrimaryIsSilent ==
  \A t \in Returned :
    NonBlank(frames[t].arg) =>
      /\ frames[t].primary => frames[t].result.sarcasm
      /\ ~frames[t].primary => (frames[t].result.sarcasm <=> WordsNear(frames[t].text))

\* C10: two returned invocations on the same text hold the same result,
\* whatever the callers did before and however their steps interleaved.
C10_SameTextSameResult ==
  \A t, u \in Returned :
    frames[t].arg = frames[u].arg => frames[t].result = frames[u].result

\* C10 witness: two callers have both returned from a text of two clauses.
C10_Witness ==
  \E t, u \in Returned :
    /\ t # u
    /\ frames[t].arg = frames[u].arg
    /\ Len(frames[t].clauses) = 2
    /\ frames[t].result = frames[u].result
    /\ frames[t].result.aspects # EmptyDict

\* C11: an invocation in which a classifier call failed (it raised, or its
\* response was neither a list of label/score pairs nor a single pair) ends
\* in an error at the call and holds no result; it does not go on.
C11_ClassifierFailureSurfaces ==
  \A t \in Callers :
    frames[t].failed => (frames[t].pc = "error" /\ frames[t].result = NoResult)

\* The label/score pairs of a response, in order.
RECURSIVE AllPairs(_)
AllPairs(out) ==
  IF out.kind = "dict" THEN <<out>>
  ELSE IF out.kind = "list" /\ out.items # <<>>
       THEN AllPairs(Head(out.items))
              \o AllPairs([out EXCEPT !.items = Tail(out.items)])
       ELSE <<>>

\* The class a label names once case is dropped and a positional label
\* remapped: LABEL_0/1/2 are CONTRADICTION/NEUTRAL/ENTAILMENT.
ClassOfLabel(label) ==
  LET u == upper(label)
  IN  IF u = L_LABEL_ \o <<"0">> THEN L_CONTRADICTION
      ELSE IF u = L_LABEL_ \o <<"1">> THEN L_NEUTRAL
      ELSE IF u = L_LABEL_ \o <<"2">> THEN L_ENTAILMENT
      ELSE u

\* The score the response gives to contradiction, zero when it gives none.
ContradictionGiven(out) ==
  LET pairs == AllPairs(out)
      hits  == {i \in 1..Len(pairs) : ClassOfLabel(pairs[i].label) = L_CONTRADICTION}
  IN  IF hits = {} THEN Zero
      ELSE pairs[CHOOSE i \in hits : \A j \in hits : j <= i].score

\* C12: whatever the shape of the entailment response, the contradiction
\* probability extracted from it is the score of its CONTRADICTION pair or of
\* its LABEL_0 pair, and zero when it has neither.
C12_PositionalLabelsAreRemapped ==
  \A t \in Callers :
    frames[t].pc = "nli_neg" =>
      frames[t].c_pos = ContradictionGiven(frames[t].nli_out)

\* C13: when the adjustment acts (sarcasm flagged, overall label Positive,
\* Positive minus Negative below 0.25) the label of the returned result is
\* Positive or Neutral, never Negative.
C13_AdjustmentNeverFlipsToNegative ==
  \A t \in Returned :
    LET f == frames[t]
        acts == /\ NonBlank(f.arg)
                /\ f.result.sarcasm
                /\ f.agg_label = "Positive"
                /\ 4 * (f.agg_probs.Positive[1] * f.agg_probs.Negative[2]
                          - f.agg_probs.Negative[1] * f.agg_probs.Positive[2])
                     < f.agg_probs.Positive[2] * f.agg_probs.Negative[2]
    IN  acts => f.result.overall \in {"Positive", "Neutral"}

\* The two entailment queries of an invocation, in the order they are issued.
BothQueries(text) ==
  <<[premise |-> text, hypothesis |-> hyp_pos],
    [premise |-> text, hypothesis |-> hyp_neg]>>

\* C14: in an invocation on a non-blank text, the valence classifier is called
\* once per clause and never again once the overall distribution exists; no
\* entailment query is issued before that, the two queries carry the whole
\* trimmed text and the positive, then the negative hypothesis; the primary
\* flag is decided on the unadjusted distribution, which stays untouched
\* until the sarcasm flag is final, and the returned flag is that final flag.
C14_PipelineOrder ==
  \A t \in Callers :
    LET f == frames[t]
    IN  (f.pc \notin {"idle", "error"} /\ NonBlank(f.arg)) =>
          /\ f.pc = "score" =>
               /\ f.n_sentiment = Len(f.scored)
               /\ f.n_sentiment <= Len(f.clauses)
               /\ f.n_nli = 0 /\ f.queries = <<>>
               /\ f.agg_label = ""
          /\ t \in Aggregated =>
               /\ f.n_sentiment = Len(f.clauses)
               /\ f.n_nli = Len(f.queries)
               /\ f.agg_label \in CanonSet
          /\ f.pc = "nli_pos" => f.queries = <<>>
          /\ f.pc = "nli_neg" => f.queries = SubSeq(BothQueries(strip(f.arg)), 1, 1)
          /\ f.pc \in {"guard", "adjust", "done"} => f.queries = BothQueries(strip(f.arg))
          /\ f.pc \in {"nli_pos", "nli_neg", "guard", "adjust"} =>
               (f.all_probs = f.agg_probs /\ f.overall_label = f.agg_label)
          /\ f.pc = "guard" =>
               (f.primary <=>
                  IF QLe(f.agg_probs.Negative, f.agg_probs.Positive)
                  THEN QLt(Q(3, 5), f.c_pos) ELSE QLt(Q(3, 5), f.c_neg))
          /\ f.pc = "done" =>
               /\ f.result.sarcasm = f.sarcasm
               /\ f.result.probs # f.agg_probs => f.sarcasm

\* C14 witness: a returned invocation on two clauses, one of them tagged with
\* two aspects: two valence calls, two entailment queries, and an adjusted
\* distribution.
C14_Witness ==
  \E t \in Returned :
    /\ Len(frames[t].clauses) = 2
    /\ \E i \in 1..2 : Cardinality(frames[t].scored[i].labs) = 2
    /\ frames[t].n_sentiment = 2
    /\ frames[t].n_nli = 2
    /\ frames[t].result.probs # frames[t].agg_probs

\* C15: an invocation on a text that is not blank scores at least one clause;
\* when the segmentation leaves nothing, the one clause is the whole trimmed
\* text; the returned aspects are not empty and the overall label is one of
\* Positive, Neutral, Negative.
C15_FallbackToWholeText ==
  \A t \in Callers :
    LET f == frames[t]
    IN  (f.pc # "idle" /\ NonBlank(f.arg)) =>
          /\ f.clauses # <<>>
          /\ f.parts # <<>> => f.clauses = f.parts
          /\ f.parts = <<>> => f.clauses = <<strip(f.arg)>>
          /\ f.pc = "done" =>
               /\ Len(f.scored) = Len(f.clauses)
               /\ DOMAIN f.result.aspects # {}
               /\ f.result.overall \in {"Positive", "Neutral", "Negative"}

\* C15 witness: a text of delimiters only has been analysed as one clause.
C15_Witness ==
  \E t \in Returned :
    /\ frames[t].arg \in {<<".",".",".">>, <<"b","u","t">>}
    /\ frames[t].parts = <<>>
    /\ frames[t].clauses = <<frames[t].arg>>
    /\ DOMAIN frames[t].result.aspects = {"general"}

\* x and y are the same number.
SameNumber(x, y) == x[1] * y[2] = y[1] * x[2]

\* The label of a distribution under the precedence Positive > Neutral >
\* Negative among the components equal to the maximum.
ByPrecedence(p) ==
  LET top == CHOOSE k \in CanonSet : \A j \in CanonSet : QLe(p[j], p[k])
  IN  IF SameNumber(p.Positive, p[top]) THEN "Positive"
      ELSE IF SameNumber(p.Neutral, p[top]) THEN "Neutral"
      ELSE "Negative"

\* C16: every label computed (of each aspect, of the overall distribution,
\* and of the returned distribution, adjusted or not) is the one the
\* precedence Positive > Neutral > Negative gives for its distribution.
C16_TiesFollowPrecedence ==
  \A t \in Callers :
    LET f == frames[t]
    IN  /\ \A a \in DOMAIN f.aspect_results :
             f.aspect_results[a].label = ByPrecedence(f.aspect_results[a].probs)
        /\ t \in Aggregated => f.agg_label = ByPrecedence(f.agg_probs)
        /\ (f.pc = "done" /\ NonBlank(f.arg)) =>
             /\ f.result.overall = ByPrecedence(f.result.probs)
             /\ \A a \in DOMAIN f.result.aspects :
                  f.result.aspects[a].label = ByPrecedence(f.result.aspects[a].probs)

\* C16 witness: the vendor listed its negative label first and scored it as
\* high as the positive one; the aspect and the result are labelled Positive.
C16_Witness ==
  \E t \in Returned :
    /\ Len(frames[t].scored) = 1
    /\ frames[t].scored[1].out[1].label = <<"n","e","g","a","t","i","v","e">>
    /\ frames[t].result.probs.Positive = frames[t].result.probs.Negative
    /\ QLt(frames[t].result.probs.Neutral, frames[t].result.probs.Positive)
    /\ frames[t].result.overall = "Positive"
    /\ \A a \in DOMAIN frames[t].result.aspects :
         frames[t].result.aspects[a].label = "Positive"

=============================================================================
